---------------------------- MODULE Spec2Model ----------------------------
(***************************************************************************)
(* A model of src/src/main.rs: the actix-web demonstration service.       *)
(*                                                                         *)
(* Text is a sequence of tokens.  A token is a string fragment; the        *)
(* conversions of the program (percent-decoding, u32 parsing, integer      *)
(* formatting, UTF-8 decoding) work on one-character tokens, and a longer  *)
(* token such as "sam" is a fragment that holds no character they act on.  *)
(* A path is the sequence of its segments, "/" being the empty sequence.   *)
(***************************************************************************)
EXTENDS Integers, Sequences, FiniteSets, TLC

\* ------------------------------------------------------------------ bounds

\* Request slots of the concurrent workload.
MaxReq == 2

\* --------------------------------------------------------------- constants

\* .workers(8)
NumWorkers == 8
\* web::JsonConfig::default().limit(4096)
JsonLimit == 4096
\* The payload limit of the String extractor of echo, which main leaves at
\* the framework's default of 256 KiB.
PayloadLimit == 262144
\* counter: Mutex<i32>: the largest and the smallest i32.
I32Max == 2147483647
I32Min == (0 - I32Max) - 1
\* user_id: u32.  A u32 is held as <<hi, lo>>, its two 16-bit halves.
Half == 65536

Workers == 1 .. NumWorkers

\* -------------------------------------------------------------------- text

Digits == <<"0", "1", "2", "3", "4", "5", "6", "7", "8", "9">>

IsDigit(c) == \E i \in 1 .. 10 : Digits[i] = c

DigitVal(c) == (CHOOSE i \in 1 .. 10 : Digits[i] = c) - 1

RECURSIVE FormatNat(_)
\* Display of a natural number: its decimal digits, most significant first.
FormatNat(n) ==
    IF n < 10 THEN <<Digits[n + 1]>>
    ELSE FormatNat(n \div 10) \o <<Digits[(n % 10) + 1]>>

\* Display of m + 1 for a natural m, computed without forming m + 1.
FormatSucc(m) ==
    IF m % 10 = 9 THEN FormatNat((m \div 10) + 1) \o <<"0">>
    ELSE (IF m < 10 THEN <<>> ELSE FormatNat(m \div 10))
             \o <<Digits[(m % 10) + 2]>>

\* format!("{counter}") of an i32.
FormatI32(n) ==
    IF n < 0 THEN <<"-">> \o FormatSucc(0 - (n + 1)) ELSE FormatNat(n)

RECURSIVE FormatU32(_)
\* format!("{}") of a u32 <<hi, lo>>: long division by ten.
FormatU32(u) ==
    IF u[1] = 0 THEN FormatNat(u[2])
    ELSE LET t == ((u[1] % 10) * Half) + u[2]
         IN  FormatU32(<<u[1] \div 10, t \div 10>>) \o <<Digits[(t % 10) + 1]>>

\* The u32 of a small natural number.
U32(n) == <<n \div Half, n % Half>>

\* Err of str::parse::<u32>.
ParseErr == <<-1, -1>>

RECURSIVE DigitsValueWrapping(_, _)
\* A parse that wraps a value beyond u32 instead of refusing it.
DigitsValueWrapping(t, acc) ==
    IF t = <<>> THEN acc
    ELSE IF ~IsDigit(Head(t)) THEN ParseErr
    ELSE LET lo == (acc[2] * 10) + DigitVal(Head(t))
             hi == (acc[1] * 10) + (lo \div Half)
         IN  DigitsValueWrapping(Tail(t), <<hi % Half, lo % Half>>)

RECURSIVE DigitsValue(_, _)
\* The value of a run of decimal digits, acc being the u32 read so far;
\* ParseErr when a token is no digit or the value leaves u32.
DigitsValue(t, acc) ==
    IF t = <<>> THEN acc
    ELSE IF ~IsDigit(Head(t)) THEN ParseErr
    ELSE LET lo == (acc[2] * 10) + DigitVal(Head(t))
             hi == (acc[1] * 10) + (lo \div Half)
         IN  IF hi >= Half THEN ParseErr
             ELSE DigitsValue(Tail(t), <<hi, lo % Half>>)

\* str::parse::<u32>: an optional "+", then one or more decimal digits, the
\* value within u32.
ParseU32(t) ==
    LET d == IF t # <<>> /\ Head(t) = "+" THEN Tail(t) ELSE t
    IN  IF d = <<>> THEN ParseErr ELSE DigitsValue(d, <<0, 0>>)

\* The characters that percent-escapes of the modelled inputs stand for.
PercentTable ==
    [p \in {<<"4", "1">>, <<"3", "7">>, <<"2", "F">>} |->
        CASE p = <<"4", "1">> -> "A"
          [] p = <<"3", "7">> -> "7"
          [] p = <<"2", "F">> -> "/"]

\* Characters the router leaves escaped while it matches a path.
Protected == {"%", "/", "+"}

RECURSIVE PercentDecode(_, _)
\* t with each escape %XY replaced by its character, except the characters
\* of keep; a "%" that starts no escape stays as it is.
PercentDecode(t, keep) ==
    IF t = <<>> THEN <<>>
    ELSE IF /\ Head(t) = "%"
            /\ Len(t) >= 3
            /\ <<t[2], t[3]>> \in DOMAIN PercentTable
            /\ PercentTable[<<t[2], t[3]>>] \notin keep
         THEN <<PercentTable[<<t[2], t[3]>>]>>
                  \o PercentDecode(SubSeq(t, 4, Len(t)), keep)
         ELSE <<Head(t)>> \o PercentDecode(Tail(t), keep)

\* The path as the router sees it: escapes decoded, protected ones kept.
Requote(path) == [i \in 1 .. Len(path) |-> PercentDecode(path[i], Protected)]

\* web::Path decodes a dynamic segment fully.
FullDecode(t) == PercentDecode(t, {})


\* ---------------------------------------------------------------- requests

\* The JSON documents of the modelled request bodies: each one token, with
\* its length in bytes and what serde_json reads from it.
JsonOk == "{\"username\":\"al\",\"password\":\"pw\"}"
JsonNoPassword == "{\"username\":\"al\"}"
JsonCut == "{\"username\":"

\* Bytes of a token: the documents above, else one character or one byte.
TokenBytes(tok) ==
    CASE tok = JsonOk -> 33
      [] tok = JsonNoPassword -> 17
      [] tok = JsonCut -> 12
      [] OTHER -> 1

RECURSIVE TextBytes(_)
TextBytes(t) == IF t = <<>> THEN 0 ELSE TokenBytes(Head(t)) + TextBytes(Tail(t))

\* A request as the transport hands it over.  body is the start of the
\* payload and pad the number of filler bytes that follow it ("a" in a text
\* payload, white space in a JSON one).
Request(m, p, q, ct, cs, b, n) ==
    [method |-> m, path |-> p, query |-> q, ctype |-> ct, charset |-> cs,
     body |-> b, pad |-> n]

\* The slot of a request that has not arrived.
NoReq == Request("-", <<>>, <<>>, "-", "-", <<>>, 0)

Get(p) == Request("GET", p, <<>>, "-", "utf-8", <<>>, 0)

ContentLength(q) == TextBytes(q.body) + q.pad

\* ------------------------------------------------------------- route table

Lit(s) == [dyn |-> FALSE, name |-> s]
Dyn(s) == [dyn |-> TRUE, name |-> s]

\* One registration.  guarded: the method guards the resource (the #[get]
\* and #[post] macros), so another method falls through to the default
\* service; an unguarded resource (App::route) answers another method itself.
Route(m, t, h, g) == [method |-> m, template |-> t, handler |-> h, guarded |-> g]

\* web::scope("/app") prefixes the templates of its services.
Scoped(prefix, r) ==
    Route(r.method, <<Lit(prefix)>> \o r.template, r.handler, r.guarded)

\* The services and routes main registers, in registration order.
Routes ==
    << Route("GET", <<>>, "hello", TRUE),
       Route("POST", <<Lit("echo")>>, "echo", TRUE),
       Route("GET", <<Lit("wait")>>, "wait", TRUE),
       Route("GET", <<Lit("hey")>>, "manual_hello", FALSE),
       Scoped("app", Route("GET", <<Lit("index.html")>>, "app_index", TRUE)),
       Scoped("app", Route("GET", <<Lit("visits.html")>>, "app_visits", TRUE)),
       Scoped("app", Route("GET", <<Lit("users"), Dyn("user_id"), Dyn("friend")>>,
                           "app_path", TRUE)),
       Scoped("app", Route("GET", <<Lit("query")>>, "app_query", TRUE)),
       Scoped("app", Route("POST", <<Lit("submit")>>, "app_submit", TRUE)),
       Scoped("app", Route("GET", <<Lit("profile"), Dyn("username")>>,
                           "app_profile", TRUE)) >>

\* A template segment against a path segment: a literal is compared as it
\* is, a dynamic segment takes any non-empty text.
SegMatches(t, seg) == IF t.dyn THEN seg # <<>> ELSE seg = <<t.name>>

PathMatches(template, path) ==
    /\ Len(template) = Len(path)
    /\ \A i \in 1 .. Len(template) : SegMatches(template[i], path[i])

\* A router whose resources carry no method guard.
ServesAnyMethod(i, m, path) == PathMatches(Routes[i].template, path)

\* Whether registration i serves the request.
Serves(i, m, path) ==
    /\ PathMatches(Routes[i].template, path)
    /\ (Routes[i].guarded => Routes[i].method = m)

\* The first registration that serves (m, path); 0 when none does.
FirstServing(m, path) ==
    IF \E i \in 1 .. Len(Routes) : Serves(i, m, path)
    THEN CHOOSE i \in 1 .. Len(Routes) :
             /\ Serves(i, m, path)
             /\ \A j \in 1 .. (i - 1) : ~Serves(j, m, path)
    ELSE 0

\* The dynamic segments of the matched path, in template order, as
\* <<name, text>> pairs.
RECURSIVE PathParams(_, _)
PathParams(template, path) ==
    IF template = <<>> THEN <<>>
    ELSE (IF Head(template).dyn THEN << <<Head(template).name, Head(path)>> >>
          ELSE <<>>) \o PathParams(Tail(template), Tail(path))

\* The router's answer: the handler and the bound segments, or a refusal,
\* NotFound (the default service) or MethodNotAllowed (an unguarded resource
\* asked with a method it has no route for).
MatchRoute(m, rawPath) ==
    LET path == Requote(rawPath)
        i == FirstServing(m, path)
    IN  IF i = 0 THEN [handler |-> "NotFound", params |-> <<>>]
        ELSE IF Routes[i].method # m
             THEN [handler |-> "MethodNotAllowed", params |-> <<>>]
             ELSE [handler |-> Routes[i].handler,
                   params |-> PathParams(Routes[i].template, path)]

\* --------------------------------------------------------------- responses

TextPlain == "text/plain; charset=utf-8"
AppJson == "application/json"

\* A response descriptor: the body is text followed by pad filler bytes.
Response(st, ct, b, n) == [status |-> st, ctype |-> ct, body |-> b, pad |-> n]

\* HttpResponse::Ok().body(..) and the Responder of String.
Ok(b) == Response(200, TextPlain, b, 0)

\* The response of an error: its status and the error's name as the text.
ErrorResponse(st, kind) == Response(st, TextPlain, <<kind>>, 0)

\* -------------------------------------------------------------- extractors

\* What the extractors of a handler hand to it.
NoArgs ==
    [user_id |-> <<0, 0>>, friend |-> <<>>, info_user_id |-> <<0, 0>>,
     info_friend |-> <<>>, username |-> <<>>, password |-> <<>>,
     body |-> <<>>, pad |-> 0]

Extracted(a) ==
    [ok |-> TRUE, kind |-> "none", resp |-> Ok(<<>>), args |-> a,
     handled |-> FALSE]

\* A failed extraction and the response its error becomes by default.
Failed(kind, r) ==
    [ok |-> FALSE, kind |-> kind, resp |-> r, args |-> NoArgs,
     handled |-> FALSE]

\* The text bound to a named dynamic segment.
Param(params, name) ==
    LET i == CHOOSE j \in 1 .. Len(params) : params[j][1] = name
    IN  params[i][2]

\* web::Path<(u32, String)>: the segments in template order, decoded, the
\* first parsed as u32.  A path error is answered 404.
PathTuple(params, a) ==
    LET uid == ParseU32(FullDecode(params[1][2]))
    IN  IF uid = ParseErr
        THEN Failed("TypeMismatch", ErrorResponse(404, "TypeMismatch"))
        ELSE Extracted([a EXCEPT !.user_id = uid,
                                 !.friend = FullDecode(params[2][2])])

\* web::Path<AppPathInfo>: the segments by field name.
PathInfo(params, a) ==
    LET uid == ParseU32(FullDecode(Param(params, "user_id")))
    IN  IF uid = ParseErr
        THEN Failed("TypeMismatch", ErrorResponse(404, "TypeMismatch"))
        ELSE Extracted([a EXCEPT !.info_user_id = uid,
                                 !.info_friend = FullDecode(Param(params, "friend"))])

\* web::Path<String>.
PathString(params, a) ==
    Extracted([a EXCEPT !.username = FullDecode(params[1][2])])

\* The values a query string gives for a key, in order.
RECURSIVE QueryValues(_, _)
QueryValues(q, key) ==
    IF q = <<>> THEN <<>>
    ELSE (IF Head(q)[1] = key THEN <<Head(q)[2]>> ELSE <<>>)
             \o QueryValues(Tail(q), key)

\* web::Query<AppQueryParams>: the struct takes the key username once; a
\* key that is absent or repeated is an error of the deserializer, answered
\* 400.  Other keys are skipped.
QueryParams(q, a) ==
    LET vs == QueryValues(q, "username")
    IN  IF vs = <<>>
        THEN Failed("MissingField", ErrorResponse(400, "MissingField"))
        ELSE IF Len(vs) > 1
        THEN Failed("DuplicateField", ErrorResponse(400, "DuplicateField"))
        ELSE Extracted([a EXCEPT !.username = FullDecode(vs[1])])

\* serde_json on the document of a body: the fields of AppSubmitInfo, or no
\* value.
JsonParse(b) ==
    IF b = <<JsonOk>>
    THEN [ok |-> TRUE, username |-> <<"al">>, password |-> <<"pw">>]
    ELSE [ok |-> FALSE, username |-> <<>>, password |-> <<>>]

\* An error handler that lets the handler run on default values.
JsonErrorHandlerRecovers(kind) ==
    [ok |-> TRUE, kind |-> "none", resp |-> Response(409, "-", <<>>, 0),
     args |-> NoArgs, handled |-> TRUE]

\* The error_handler of the JsonConfig of scope /app: every error of the
\* Json extractor becomes the response 409 Conflict with an empty body.
JsonErrorHandler(kind) ==
    [Failed(kind, Response(409, "-", <<>>, 0)) EXCEPT !.handled = TRUE]

\* A Json extractor that reads a payload of any length.
JsonBodyUnlimited(q, a) ==
    IF q.ctype # AppJson THEN JsonErrorHandler("ContentType")
    ELSE IF ~JsonParse(q.body).ok THEN JsonErrorHandler("MalformedBody")
    ELSE Extracted([a EXCEPT !.username = JsonParse(q.body).username,
                             !.password = JsonParse(q.body).password])

\* web::Json<AppSubmitInfo> under that JsonConfig: the content type, then
\* the length against the limit, then the document.
JsonBody(q, a) ==
    IF q.ctype # AppJson THEN JsonErrorHandler("ContentType")
    ELSE IF ContentLength(q) > JsonLimit THEN JsonErrorHandler("PayloadTooLarge")
    ELSE IF ~JsonParse(q.body).ok THEN JsonErrorHandler("MalformedBody")
    ELSE Extracted([a EXCEPT !.username = JsonParse(q.body).username,
                             !.password = JsonParse(q.body).password])

\* Bytes above 0x7F of the modelled payloads; every other token is ASCII.
HighBytes == {"xC2", "xC3", "xA9", "xBF", "xE9", "xFF"}

RECURSIVE Utf8Valid(_)
\* Whether the bytes are UTF-8: ASCII, or a lead byte 0xC2/0xC3 with a
\* continuation byte.
Utf8Valid(b) ==
    IF b = <<>> THEN TRUE
    ELSE IF Head(b) \notin HighBytes THEN Utf8Valid(Tail(b))
    ELSE /\ Head(b) \in {"xC2", "xC3"}
         /\ Len(b) >= 2
         /\ b[2] \in {"xA9", "xBF"}
         /\ Utf8Valid(SubSeq(b, 3, Len(b)))

\* The character of a two-byte UTF-8 sequence.
TwoByteChar(lead, cont) ==
    CASE lead = "xC2" /\ cont = "xA9" -> "U+00A9"
      [] lead = "xC2" /\ cont = "xBF" -> "U+00BF"
      [] lead = "xC3" /\ cont = "xA9" -> "U+00E9"
      [] lead = "xC3" /\ cont = "xBF" -> "U+00FF"

RECURSIVE Utf8Chars(_)
\* String::from_utf8 of valid bytes.
Utf8Chars(b) ==
    IF b = <<>> THEN <<>>
    ELSE IF Head(b) \notin HighBytes THEN <<Head(b)>> \o Utf8Chars(Tail(b))
    ELSE <<TwoByteChar(b[1], b[2])>> \o Utf8Chars(SubSeq(b, 3, Len(b)))

\* The character of one byte in ISO-8859-1.
Latin1Char(byte) ==
    CASE byte = "xC2" -> "U+00C2"
      [] byte = "xC3" -> "U+00C3"
      [] byte = "xA9" -> "U+00A9"
      [] byte = "xBF" -> "U+00BF"
      [] byte = "xE9" -> "U+00E9"
      [] byte = "xFF" -> "U+00FF"
      [] OTHER -> byte

\* The UTF-8 bytes of one character.
CharBytes(c) ==
    CASE c = "U+00A9" -> <<"xC2", "xA9">>
      [] c = "U+00BF" -> <<"xC2", "xBF">>
      [] c = "U+00C2" -> <<"xC3", "x82">>
      [] c = "U+00C3" -> <<"xC3", "x83">>
      [] c = "U+00E9" -> <<"xC3", "xA9">>
      [] c = "U+00FF" -> <<"xC3", "xBF">>
      [] OTHER -> <<c>>

RECURSIVE StringBytes(_)
\* The bytes of a String: the body a response carries for it.
StringBytes(s) ==
    IF s = <<>> THEN <<>> ELSE CharBytes(Head(s)) \o StringBytes(Tail(s))

\* A String extractor that takes the limit of the JsonConfig of scope /app.
StringBodyScopeLimit(q, a) ==
    IF ContentLength(q) > JsonLimit
    THEN Failed("PayloadTooLarge", ErrorResponse(413, "PayloadTooLarge"))
    ELSE IF Utf8Valid(q.body)
    THEN Extracted([a EXCEPT !.body = Utf8Chars(q.body), !.pad = q.pad])
    ELSE Failed("MalformedBody", ErrorResponse(400, "MalformedBody"))

\* The String extractor of echo: the payload against the default limit
\* (413 beyond it), then decoded by the charset of the content type (400
\* when the bytes are not text in it).
StringBody(q, a) ==
    IF ContentLength(q) > PayloadLimit
    THEN Failed("PayloadTooLarge", ErrorResponse(413, "PayloadTooLarge"))
    ELSE IF q.charset = "utf-8"
    THEN IF Utf8Valid(q.body)
         THEN Extracted([a EXCEPT !.body = Utf8Chars(q.body), !.pad = q.pad])
         ELSE Failed("MalformedBody", ErrorResponse(400, "MalformedBody"))
    ELSE Extracted([a EXCEPT !.body = [i \in 1 .. Len(q.body) |->
                                          Latin1Char(q.body[i])],
                             !.pad = q.pad])

\* The extractors each handler declares, in the order of its parameters.
\* web::Data resolves state registered on the scope and cannot fail.
Extractors(handler) ==
    CASE handler = "echo" -> <<"String">>
      [] handler = "app_index" -> <<"Data<AppState>">>
      [] handler = "app_visits" -> <<"Data<AppStateWithCounter>">>
      [] handler = "app_path" -> <<"Path<(u32, String)>", "Path<AppPathInfo>">>
      [] handler = "app_query" -> <<"Query<AppQueryParams>">>
      [] handler = "app_submit" -> <<"Json<AppSubmitInfo>">>
      [] handler = "app_profile" -> <<"Path<String>">>
      [] OTHER -> <<>>

\* One extractor on a request, adding to the arguments a.
RunExtractor(ex, q, params, a) ==
    CASE ex = "String" -> StringBody(q, a)
      [] ex = "Path<(u32, String)>" -> PathTuple(params, a)
      [] ex = "Path<AppPathInfo>" -> PathInfo(params, a)
      [] ex = "Path<String>" -> PathString(params, a)
      [] ex = "Query<AppQueryParams>" -> QueryParams(q.query, a)
      [] ex = "Json<AppSubmitInfo>" -> JsonBody(q, a)
      [] OTHER -> Extracted(a)

RECURSIVE RunExtractors(_, _, _, _)
\* The extractors in order; the first failure is the result.
RunExtractors(exs, q, params, a) ==
    IF exs = <<>> THEN Extracted(a)
    ELSE LET first == RunExtractor(Head(exs), q, params, a)
         IN  IF first.ok THEN RunExtractors(Tail(exs), q, params, first.args)
             ELSE first

\* ---------------------------------------------------------------- handlers

hello == Ok(<<"Hi there!">>)

echo(a) == Response(200, TextPlain, StringBytes(a.body), a.pad)

manual_hello == Ok(<<"Hi there!">>)

\* app_name of the AppState registered on scope /app.
AppName == <<"Actix Web">>

app_index == Ok(<<"Hello ">> \o AppName \o <<"!">>)

\* A handler that puts the two segments in each other's place.
app_path_swapped(a) ==
    Ok(<<"Welcome ">> \o FormatU32(a.user_id) \o <<", user_id ">> \o a.friend
           \o <<"!">>)

app_path(a) ==
    Ok(<<"Welcome ">> \o a.friend \o <<", user_id ">> \o FormatU32(a.user_id)
           \o <<"!">>)

app_query(a) == Ok(<<"Welcome ">> \o a.username \o <<"!">>)

app_submit(a) ==
    Ok(<<"Submitting for ">> \o a.username \o <<" with password ">>
           \o a.password \o <<"!">>)

\* AppResponse::respond_to: the struct as JSON.
app_profile(a) ==
    Response(200, AppJson, <<"{\"username\":\"">> \o a.username \o <<"\"}">>, 0)

\* The handlers that return at once, by name.
Call(handler, a) ==
    CASE handler = "hello" -> hello
      [] handler = "echo" -> echo(a)
      [] handler = "manual_hello" -> manual_hello
      [] handler = "app_index" -> app_index
      [] handler = "app_path" -> app_path(a)
      [] handler = "app_query" -> app_query(a)
      [] handler = "app_submit" -> app_submit(a)
      [] handler = "app_profile" -> app_profile(a)

\* app_stream: the chunks of its body.  main never registers the handler.
app_stream == <<"streamed body">>

\* The AppState a handler of worker w resolves.  HttpServer::new runs the
\* application factory once in each worker, and web::Data::new(AppState{..})
\* is inside the factory: each worker has the instance its own run built.
AppStateOf(w) == <<"AppState", w>>

\* A counter state built inside the factory, once in each worker.
CounterPerWorker(w) == <<"AppStateWithCounter", w>>

\* The AppStateWithCounter a handler of worker w resolves.  main builds it
\* once, before HttpServer::new, and each run of the factory clones the
\* web::Data (an Arc) of that one instance.
CounterOf(w) == <<"AppStateWithCounter", 0>>

\* web::Data<T>: the registered state a handler called on worker w gets.
DataOf(handler, w) ==
    CASE handler = "app_index" -> AppStateOf(w)
      [] handler = "app_visits" -> CounterOf(w)
      [] OTHER -> <<"-", 0>>

\* ------------------------------------------------------------------- state

VARIABLES
    counter,         \* the i32 inside AppStateWithCounter.counter
    locked,          \* whether that Mutex is locked
    poisoned,        \* whether a holder of the Mutex panicked
    overflowChecks,  \* whether the build panics on integer overflow
    req,             \* req[r]: the request in slot r
    worker,          \* worker[r]: the worker serving r, 0 before it arrives
    pc,              \* pc[r]: the dispatcher state of r
    step,            \* step[r]: where the handler of r stands while Invoking
    loaded,          \* loaded[r]: the counter value app_visits read for += 1
    route,           \* route[r]: the router's answer for r
    args,            \* args[r]: what the extractors produced for r
    err,             \* err[r]: the error of r, "none" without one
    resp             \* resp[r]: the response descriptors produced for r

vars ==
    <<counter, locked, poisoned, overflowChecks, req, worker, pc, step,
      loaded, route, args, err, resp>>

Slots == DOMAIN pc

NoRoute == [handler |-> "-", params |-> <<>>]

\* The handler steps in which the worker thread is inside app_visits: it
\* has no .await, so the thread runs (or blocks in lock()) until it returns.
VisitsSteps == {"lock", "load", "store", "return"}

\* The steps in which app_visits holds the MutexGuard.
GuardSteps == {"load", "store", "return"}

InVisits(r) == pc[r] = "Invoking" /\ step[r] \in VisitsSteps

HoldsLock(r) == pc[r] = "Invoking" /\ step[r] \in GuardSteps

\* A wait that sleeps on its worker's thread instead of awaiting.
OnThreadAsleep(r) ==
    pc[r] = "Invoking" /\ step[r] \in VisitsSteps \cup {"sleep"}

\* The handler of r keeps its worker's thread: app_visits does from its call
\* to its return; wait gives the thread back at sleep(..).await.
OnThread(r) == InVisits(r)

\* The thread of r's worker is not inside the handler of another request.
ThreadFree(r) ==
    \A x \in Slots \ {r} : worker[x] = worker[r] => ~OnThread(x)

\* ---------------------------------------------------------------- workload

PathOf(segs) == [i \in 1 .. Len(segs) |-> <<segs[i]>>]

PlainPaths ==
    { <<>>, PathOf(<<"echo">>), PathOf(<<"wait">>), PathOf(<<"hey">>),
      PathOf(<<"app">>), PathOf(<<"app", "index.html">>),
      PathOf(<<"app", "visits.html">>), PathOf(<<"app", "query">>),
      PathOf(<<"app", "submit">>), PathOf(<<"app", "stream">>),
      PathOf(<<"app", "users", "7">>), PathOf(<<"index.html">>),
      PathOf(<<"stream">>) }

PlainRequests ==
    { Request(m, p, <<>>, "-", "utf-8", <<>>, 0) :
          m \in {"GET", "POST"}, p \in PlainPaths }

UserIdTexts ==
    { <<"0">>, <<"7">>, <<"4", "2", "9", "4", "9", "6", "7", "2", "9", "5">>,
      <<"4", "2", "9", "4", "9", "6", "7", "2", "9", "6">>,
      <<"0", "0", "7">>, <<"+", "7">>, <<"-", "1">>, <<"abc">>,
      <<"%", "3", "7">> }

FriendTexts == { <<"sam">>, <<"7">>, <<"%", "4", "1">>, <<"%", "2", "F">> }

UserRequests ==
    { Get(<< <<"app">>, <<"users">>, u, f >>) :
          u \in UserIdTexts, f \in FriendTexts }

ProfileRequests ==
    { Get(<< <<"app">>, <<"profile">>, f >>) : f \in FriendTexts }

Queries ==
    { << <<"username", <<"al">> >> >>,
      << <<"username", <<"al">> >>, <<"username", <<"bo">> >> >>,
      << <<"lang", <<"en">> >> >>,
      << <<"lang", <<"en">> >>, <<"username", <<"%", "4", "1">> >> >> }

QueryRequests ==
    { Request("GET", PathOf(<<"app", "query">>), q, "-", "utf-8", <<>>, 0) :
          q \in Queries }

SubmitRequests ==
    { Request("POST", PathOf(<<"app", "submit">>), <<>>, ct, "utf-8", <<d>>, n) :
          ct \in {AppJson, "text/plain"},
          d \in {JsonOk, JsonNoPassword, JsonCut},
          n \in {0, JsonLimit - TokenBytes(JsonOk),
                 (JsonLimit - TokenBytes(JsonOk)) + 1, JsonLimit} }

EchoBodies ==
    { <<>>, <<"a", "b", "c">>, <<"a", "xFF">>, <<"xC3", "xA9">>, <<"xE9">> }

EchoRequests ==
    { Request("POST", PathOf(<<"echo">>), <<>>, "text/plain", cs, b, n) :
          cs \in {"utf-8", "latin1"}, b \in EchoBodies,
          n \in {0, JsonLimit + 1, PayloadLimit - 3, PayloadLimit - 2,
                 PayloadLimit, PayloadLimit + 1} }

\* What one client may send.
Requests ==
    PlainRequests \cup UserRequests \cup ProfileRequests \cup QueryRequests
        \cup SubmitRequests \cup EchoRequests

\* What the concurrent clients send.
Traffic ==
    { Get(PathOf(<<"app", "visits.html">>)), Get(PathOf(<<"wait">>)),
      Get(PathOf(<<"app", "index.html">>)) }

\* -------------------------------------------------------------------- init

\* The state main builds: the counter at c, every slot empty.
Start(slots, c) ==
    /\ counter = c
    /\ locked = FALSE
    /\ poisoned = FALSE
    /\ overflowChecks \in BOOLEAN
    /\ req = [r \in slots |-> NoReq]
    /\ worker = [r \in slots |-> 0]
    /\ pc = [r \in slots |-> "Idle"]
    /\ step = [r \in slots |-> "-"]
    /\ loaded = [r \in slots |-> 0]
    /\ route = [r \in slots |-> NoRoute]
    /\ args = [r \in slots |-> NoArgs]
    /\ err = [r \in slots |-> "none"]
    /\ resp = [r \in slots |-> <<>>]

\* Mutex::new(0), and MaxReq clients.
Init == Start(1 .. MaxReq, 0)

\* One client.
InitOne == Start({1}, 0)

\* The service after I32Max - 1 or I32Max visits.
InitAged == \E c \in {I32Max - 1, I32Max} : Start(1 .. MaxReq, c)

\* ----------------------------------------------------------------- actions

\* Workers are alike: a connection goes to a worker that already serves one
\* or to the first that serves none.
MayServe(w) == \A v \in 1 .. (w - 1) : \E x \in Slots : worker[x] = v

\* The transport hands request q to worker w, in slot r.  The worker takes
\* it up when its thread is not inside a handler.
Accept(r, q, w) ==
    /\ pc[r] = "Idle"
    /\ \A x \in Slots : x < r => pc[x] # "Idle"
    /\ MayServe(w)
    /\ \A x \in Slots : worker[x] = w => ~OnThread(x)
    /\ req' = [req EXCEPT ![r] = q]
    /\ worker' = [worker EXCEPT ![r] = w]
    /\ pc' = [pc EXCEPT ![r] = "Received"]
    /\ UNCHANGED <<counter, locked, poisoned, overflowChecks, step, loaded,
                   route, args, err, resp>>

\* A request of one client, which may be any request.
Receive(r) == \E q \in Requests, w \in Workers : Accept(r, q, w)

\* A request of the concurrent clients.
ReceiveTraffic(r) == \E q \in Traffic, w \in Workers : Accept(r, q, w)

\* The router: the request is matched, or answered by the default service
\* (404), or by the resource it names with another method (405).
Match(r) ==
    /\ pc[r] = "Received"
    /\ ThreadFree(r)
    /\ LET m == MatchRoute(req[r].method, req[r].path)
       IN  IF m.handler = "NotFound"
           THEN /\ pc' = [pc EXCEPT ![r] = "Errored"]
                /\ err' = [err EXCEPT ![r] = "RouteNotFound"]
                /\ resp' = [resp EXCEPT ![r] =
                               Append(@, ErrorResponse(404, "RouteNotFound"))]
                /\ UNCHANGED route
           ELSE IF m.handler = "MethodNotAllowed"
           THEN /\ pc' = [pc EXCEPT ![r] = "Errored"]
                /\ err' = [err EXCEPT ![r] = "MethodNotAllowed"]
                /\ resp' = [resp EXCEPT ![r] =
                               Append(@, ErrorResponse(405, "MethodNotAllowed"))]
                /\ UNCHANGED route
           ELSE /\ pc' = [pc EXCEPT ![r] = "Matched"]
                /\ route' = [route EXCEPT ![r] = m]
                /\ UNCHANGED <<err, resp>>
    /\ UNCHANGED <<counter, locked, poisoned, overflowChecks, req, worker,
                   step, loaded, args>>

\* The extractors of the matched handler start.
BeginExtract(r) ==
    /\ pc[r] = "Matched"
    /\ ThreadFree(r)
    /\ pc' = [pc EXCEPT ![r] = "Extracting"]
    /\ UNCHANGED <<counter, locked, poisoned, overflowChecks, req, worker,
                   step, loaded, route, args, err, resp>>

\* Where a handler starts.
FirstStep(handler) ==
    CASE handler = "app_visits" -> "lock"
      [] handler = "wait" -> "sleep"
      [] OTHER -> "call"

\* The extractors have run: the handler is invoked with what they produced,
\* or the first error is answered, by the scope's error handler when it has
\* one and else by the error's own response.
Extract(r) ==
    /\ pc[r] = "Extracting"
    /\ ThreadFree(r)
    /\ LET e == RunExtractors(Extractors(route[r].handler), req[r],
                              route[r].params, NoArgs)
       IN  IF e.ok
           THEN /\ pc' = [pc EXCEPT ![r] = "Invoking"]
                /\ step' = [step EXCEPT ![r] = FirstStep(route[r].handler)]
                /\ args' = [args EXCEPT ![r] = e.args]
                /\ UNCHANGED <<err, resp>>
           ELSE /\ pc' = [pc EXCEPT ![r] =
                             IF e.handled THEN "Responding" ELSE "Errored"]
                /\ err' = [err EXCEPT ![r] = e.kind]
                /\ resp' = [resp EXCEPT ![r] = Append(@, e.resp)]
                /\ UNCHANGED <<step, args>>
    /\ UNCHANGED <<counter, locked, poisoned, overflowChecks, req, worker,
                   loaded, route>>

\* A handler outside app_visits that counts its call, without the lock.
HandleCounting(r) ==
    /\ pc[r] = "Invoking"
    /\ step[r] = "call"
    /\ ThreadFree(r)
    /\ pc' = [pc EXCEPT ![r] = "Responding"]
    /\ step' = [step EXCEPT ![r] = "-"]
    /\ resp' = [resp EXCEPT ![r] = Append(@, Call(route[r].handler, args[r]))]
    /\ counter' = IF counter < I32Max THEN counter + 1 ELSE counter
    /\ UNCHANGED <<locked, poisoned, overflowChecks, req, worker,
                   loaded, route, args, err>>

\* A handler that returns at once runs.
Handle(r) ==
    /\ pc[r] = "Invoking"
    /\ step[r] = "call"
    /\ ThreadFree(r)
    /\ pc' = [pc EXCEPT ![r] = "Responding"]
    /\ step' = [step EXCEPT ![r] = "-"]
    /\ resp' = [resp EXCEPT ![r] = Append(@, Call(route[r].handler, args[r]))]
    /\ UNCHANGED <<counter, locked, poisoned, overflowChecks, req, worker,
                   loaded, route, args, err>>

\* wait: the sleep of five seconds is over and the handler returns.  While
\* it sleeps the worker serves other requests.
WaitElapsed(r) ==
    /\ pc[r] = "Invoking"
    /\ step[r] = "sleep"
    /\ ThreadFree(r)
    /\ pc' = [pc EXCEPT ![r] = "Responding"]
    /\ step' = [step EXCEPT ![r] = "-"]
    /\ resp' = [resp EXCEPT ![r] = Append(@, Ok(<<"Waited 5 seconds!">>))]
    /\ UNCHANGED <<counter, locked, poisoned, overflowChecks, req, worker,
                   loaded, route, args, err>>

\* The handler of r panics: the task of the request ends with no response.
Panic(r, kind) ==
    /\ pc' = [pc EXCEPT ![r] = "Errored"]
    /\ step' = [step EXCEPT ![r] = "-"]
    /\ err' = [err EXCEPT ![r] = kind]

\* A lock that never makes a caller wait.
LockNeverWaits == TRUE

\* Whether lock() returns: the Mutex is free.
LockFree == ~locked

\* app_visits: data.counter.lock().unwrap().  lock() blocks while the Mutex
\* is locked; on a poisoned Mutex it returns an error and unwrap panics,
\* which drops the guard inside the error.
VisitsLock(r) ==
    /\ pc[r] = "Invoking"
    /\ step[r] = "lock"
    /\ LockFree
    /\ IF poisoned
       THEN /\ Panic(r, "Poisoned")
            /\ UNCHANGED locked
       ELSE /\ locked' = TRUE
            /\ step' = [step EXCEPT ![r] = "load"]
            /\ UNCHANGED <<pc, err>>
    /\ UNCHANGED <<counter, poisoned, overflowChecks, req, worker, loaded,
                   route, args, resp>>

\* app_visits: *counter += 1 reads the counter.
VisitsLoad(r) ==
    /\ pc[r] = "Invoking"
    /\ step[r] = "load"
    /\ loaded' = [loaded EXCEPT ![r] = counter]
    /\ step' = [step EXCEPT ![r] = "store"]
    /\ UNCHANGED <<counter, locked, poisoned, overflowChecks, req, worker,
                   pc, route, args, err, resp>>

\* A guard that the unwinding of a panic leaves locked.
UnwindLeaksGuard ==
    /\ locked' = TRUE
    /\ poisoned' = TRUE

\* The Mutex after the guard of a panicking handler is dropped: unlocked
\* and poisoned.
UnwindGuard ==
    /\ locked' = FALSE
    /\ poisoned' = TRUE

\* app_visits: *counter += 1 writes the sum.  Beyond i32 the sum wraps, or
\* with overflow checks the handler panics while it holds the guard.
VisitsStore(r) ==
    /\ pc[r] = "Invoking"
    /\ step[r] = "store"
    /\ IF loaded[r] < I32Max
       THEN /\ counter' = loaded[r] + 1
            /\ step' = [step EXCEPT ![r] = "return"]
            /\ UNCHANGED <<locked, poisoned, pc, err>>
       ELSE IF overflowChecks
       THEN /\ Panic(r, "Overflow")
            /\ UnwindGuard
            /\ UNCHANGED counter
       ELSE /\ counter' = I32Min
            /\ step' = [step EXCEPT ![r] = "return"]
            /\ UNCHANGED <<locked, poisoned, pc, err>>
    /\ UNCHANGED <<overflowChecks, req, worker, loaded, route, args, resp>>

\* A guard that outlives the handler (it is leaked, not dropped).
GuardLeaked == locked' = locked

\* The Mutex after the guard is dropped at the end of the handler.
DropGuard == locked' = FALSE

\* A return that reports the value read before the increment.
VisitsReturnStale(r) ==
    /\ pc[r] = "Invoking"
    /\ step[r] = "return"
    /\ resp' = [resp EXCEPT ![r] =
                   Append(@, Ok(<<"Visits so far: ">> \o FormatI32(loaded[r])))]
    /\ DropGuard
    /\ pc' = [pc EXCEPT ![r] = "Responding"]
    /\ step' = [step EXCEPT ![r] = "-"]
    /\ UNCHANGED <<counter, poisoned, overflowChecks, req, worker, loaded,
                   route, args, err>>

\* app_visits: format!("Visits so far: {counter}") and the return, which
\* drops the guard.
VisitsReturn(r) ==
    /\ pc[r] = "Invoking"
    /\ step[r] = "return"
    /\ resp' = [resp EXCEPT ![r] =
                   Append(@, Ok(<<"Visits so far: ">> \o FormatI32(counter)))]
    /\ DropGuard
    /\ pc' = [pc EXCEPT ![r] = "Responding"]
    /\ step' = [step EXCEPT ![r] = "-"]
    /\ UNCHANGED <<counter, poisoned, overflowChecks, req, worker, loaded,
                   route, args, err>>

\* A dispatcher that takes a finished request up again.
FinishReopens(r) ==
    /\ pc[r] = "Responding"
    /\ ThreadFree(r)
    /\ pc' = [pc EXCEPT ![r] = "Received"]
    /\ UNCHANGED <<counter, locked, poisoned, overflowChecks, req, worker,
                   step, loaded, route, args, err, resp>>

\* The response is finalized and handed to the transport.
Finish(r) ==
    /\ pc[r] = "Responding"
    /\ ThreadFree(r)
    /\ pc' = [pc EXCEPT ![r] = "Done"]
    /\ UNCHANGED <<counter, locked, poisoned, overflowChecks, req, worker,
                   step, loaded, route, args, err, resp>>

\* The transport abandons the request (the client is gone) and its task is
\* dropped.  A task is dropped only where it is suspended, which app_visits
\* never is while it runs.
Abandon(r) ==
    /\ pc[r] \in {"Received", "Matched", "Extracting", "Invoking", "Responding"}
    /\ ~InVisits(r)
    /\ ThreadFree(r)
    /\ pc' = [pc EXCEPT ![r] = "Abandoned"]
    /\ step' = [step EXCEPT ![r] = "-"]
    /\ UNCHANGED <<counter, locked, poisoned, overflowChecks, req, worker,
                   loaded, route, args, err, resp>>

\* ---------------------------------------------------------- specifications

\* The steps of the service on the requests it holds.
Serve ==
    \/ \E r \in Slots : Match(r)
    \/ \E r \in Slots : BeginExtract(r)
    \/ \E r \in Slots : Extract(r)
    \/ \E r \in Slots : Handle(r)
    \/ \E r \in Slots : WaitElapsed(r)
    \/ \E r \in Slots : VisitsLock(r)
    \/ \E r \in Slots : VisitsLoad(r)
    \/ \E r \in Slots : VisitsStore(r)
    \/ \E r \in Slots : VisitsReturn(r)
    \/ \E r \in Slots : Finish(r)
    \/ \E r \in Slots : Abandon(r)

Next == (\E r \in Slots : ReceiveTraffic(r)) \/ Serve

NextOne == (\E r \in Slots : Receive(r)) \/ Serve

\* MaxReq concurrent clients of /app/visits.html, /wait and /app/index.html,
\* from startup.
Spec == Init /\ [][Next]_vars

\* The same clients, when the counter has nearly run through i32.
SpecAged == InitAged /\ [][Next]_vars

\* One client sending any request, from startup.
SpecOne == InitOne /\ [][NextOne]_vars

\* A request of the clients of /app/visits.html and /wait.
ReceiveLive(r) ==
    \E q \in {Get(PathOf(<<"app", "visits.html">>)), Get(PathOf(<<"wait">>))},
       w \in Workers : Accept(r, q, w)

\* The steps of the service on request r.
Step(r) ==
    \/ Match(r)
    \/ BeginExtract(r)
    \/ Extract(r)
    \/ WaitElapsed(r)
    \/ VisitsLock(r)
    \/ VisitsLoad(r)
    \/ VisitsStore(r)
    \/ VisitsReturn(r)
    \/ Finish(r)

NextLive ==
    \/ \E r \in Slots : ReceiveLive(r)
    \/ \E r \in Slots : Match(r)
    \/ \E r \in Slots : BeginExtract(r)
    \/ \E r \in Slots : Extract(r)
    \/ \E r \in Slots : WaitElapsed(r)
    \/ \E r \in Slots : VisitsLock(r)
    \/ \E r \in Slots : VisitsLoad(r)
    \/ \E r \in Slots : VisitsStore(r)
    \/ \E r \in Slots : VisitsReturn(r)
    \/ \E r \in Slots : Finish(r)

\* The service does not stop while it has a step to take: a worker thread
\* that can run does, the runtime polls a task that is ready, the timer of
\* sleep fires, and lock() returns once the Mutex is free.
Fairness == WF_vars(\E r \in 1 .. MaxReq : Step(r))

\* MaxReq clients of /app/visits.html and /wait that stay for their
\* responses, from startup, under fair scheduling.
SpecLive == Init /\ [][NextLive]_vars /\ Fairness

\* ------------------------------------------------------------------ claims

\* Slot r holds a request of method m for the path of segments segs.
Is(r, m, segs) == req[r].method = m /\ req[r].path = PathOf(segs)

IsVisits(r) == Is(r, "GET", <<"app", "visits.html">>)

\* The response app_visits gives for the counter value n.
VisitsSoFar(n) == Ok(<<"Visits so far: ">> \o FormatI32(n))

\* The visits requests whose handler has returned.
Returned == {r \in Slots : IsVisits(r) /\ resp[r] # <<>>}

\* C1: from startup, at most one request holds the counter's lock in every
\* reachable state, and when every GET /app/visits.html received so far has
\* completed, the counter equals their number (no lost update).
C1_NoLostUpdate ==
    /\ Cardinality({r \in Slots : HoldsLock(r)}) <= 1
    /\ LET V == {r \in Slots : IsVisits(r)}
       IN  (\A r \in V : pc[r] = "Done") => counter = Cardinality(V)

\* Two visits served by different workers have both completed.
C1_Witness ==
    /\ \A r \in Slots : IsVisits(r) /\ pc[r] = "Done"
    /\ \E r, x \in Slots : worker[r] # worker[x]

\* C2: from startup, the k-th GET /app/visits.html whose handler completes
\* returns 200 "Visits so far: k", the counter value right after its own
\* increment, and no two responses carry the same number.
C2_KthVisit ==
    /\ [](\A r, x \in Returned : r # x => resp[r] # resp[x])
    /\ [][\A r \in Slots :
             (IsVisits(r) /\ resp[r] = <<>> /\ resp'[r] # <<>>)
                 => resp'[r] = <<VisitsSoFar(Cardinality(Returned) + 1)>>]_vars

\* Two visits have completed, the second one received being the first to
\* return.
C2_Witness ==
    /\ \A r \in Slots : IsVisits(r) /\ pc[r] = "Done"
    /\ resp[1] = <<VisitsSoFar(2)>>
    /\ resp[2] = <<VisitsSoFar(1)>>

\* C3: a GET /app/visits.html that ends without a fault of its own
\* arithmetic has a 200 response, whatever happened to the requests before
\* it.
C3_FaultContained ==
    \A r \in Slots :
        (IsVisits(r) /\ pc[r] \in {"Done", "Errored"} /\ err[r] # "Overflow")
            => /\ Len(resp[r]) = 1
               /\ resp[r][1].status = 200

\* C4: the Mutex is locked only while a request in Invoking holds the guard:
\* a request that is Done, Errored or Abandoned holds none, and no exit of
\* the handler, a panic included, leaves the Mutex locked.
C4_LockReleased ==
    /\ \A r \in Slots : step[r] \in GuardSteps => pc[r] = "Invoking"
    /\ locked => \E r \in Slots : HoldsLock(r)

\* A handler has panicked while it held the guard, and the Mutex is free.
C4_Witness ==
    \E r \in Slots : pc[r] = "Errored" /\ err[r] = "Overflow" /\ ~locked

\* C5: a request that has ended, Done or Errored, has exactly one response
\* descriptor, and no request ever has two.
C5_ExactlyOneResponse ==
    \A r \in Slots :
        /\ Len(resp[r]) <= 1
        /\ pc[r] \in {"Done", "Errored"} => Len(resp[r]) = 1

\* Slot r holds a POST /app/submit that declares JSON and whose body is
\* longer than the limit of the scope.
OversizedSubmit(r) ==
    /\ Is(r, "POST", <<"app", "submit">>)
    /\ req[r].ctype = AppJson
    /\ ContentLength(req[r]) > JsonLimit

\* C6: a POST /app/submit whose JSON body exceeds 4096 bytes never reaches
\* the handler: its extraction fails with PayloadTooLarge and the error
\* handler of the scope answers it 409.
C6_OversizedSubmit ==
    \A r \in Slots :
        OversizedSubmit(r)
            => /\ pc[r] \notin {"Invoking", "Errored"}
               /\ pc[r] \in {"Responding", "Done"}
                      => /\ err[r] = "PayloadTooLarge"
                         /\ Len(resp[r]) = 1
                         /\ resp[r][1].status = 409

\* A well-formed document, one byte over the limit, has been answered 409.
C6_Witness ==
    \E r \in Slots :
        /\ OversizedSubmit(r)
        /\ req[r].body = <<JsonOk>>
        /\ ContentLength(req[r]) = JsonLimit + 1
        /\ pc[r] = "Done"
        /\ resp[r][1].status = 409

\* The fixed route table of the service as the specification lists it.
C7_FixedRouteTable ==
    { <<"GET", <<>> >>,
      <<"POST", <<Lit("echo")>> >>,
      <<"GET", <<Lit("wait")>> >>,
      <<"GET", <<Lit("hey")>> >>,
      <<"GET", <<Lit("app"), Lit("index.html")>> >>,
      <<"GET", <<Lit("app"), Lit("visits.html")>> >>,
      <<"GET", <<Lit("app"), Lit("users"), Dyn("user_id"), Dyn("friend")>> >>,
      <<"GET", <<Lit("app"), Lit("query")>> >>,
      <<"POST", <<Lit("app"), Lit("submit")>> >>,
      <<"GET", <<Lit("app"), Lit("profile"), Dyn("username")>> >>,
      <<"GET", <<Lit("app"), Lit("stream")>> >> }

\* C7: a request whose method and path are in the fixed route table is
\* never answered RouteNotFound.
C7_TableRegistered ==
    \A r \in Slots :
        (\E e \in C7_FixedRouteTable :
             /\ req[r].method = e[1]
             /\ PathMatches(e[2], Requote(req[r].path)))
            => err[r] # "RouteNotFound"

\* Slot r holds a GET /app/users/{user_id}/{friend} whose user_id segment
\* is the decimal form of a u32.
WellFormedUser(r) ==
    /\ req[r].method = "GET"
    /\ Len(req[r].path) = 4
    /\ req[r].path[1] = <<"app">>
    /\ req[r].path[2] = <<"users">>
    /\ req[r].path[4] # <<>>
    /\ ParseU32(req[r].path[3]) # ParseErr
    /\ FormatU32(ParseU32(req[r].path[3])) = req[r].path[3]

\* The response "Welcome <friend>, user_id <user_id>!".
Welcome(friend, user_id) ==
    Ok(<<"Welcome ">> \o friend \o <<", user_id ">> \o user_id \o <<"!">>)

\* C8 as claimed: the response carries the literal text of both segments.
C8_LiteralSegments ==
    \A r \in Slots :
        (WellFormedUser(r) /\ pc[r] \in {"Done", "Errored"})
            => resp[r] = <<Welcome(req[r].path[4], req[r].path[3])>>

\* C8: such a request is answered 200 "Welcome <friend>, user_id
\* <user_id>!", user_id being the text of the third segment and friend the
\* percent-decoded text of the fourth, each from its own position.
C8_DecodedSegments ==
    \A r \in Slots :
        (WellFormedUser(r) /\ pc[r] \in {"Done", "Errored"})
            => /\ pc[r] = "Done"
               /\ resp[r] = <<Welcome(FullDecode(req[r].path[4]), req[r].path[3])>>

\* /app/users/4294967295/%41 has been answered "Welcome A, user_id
\* 4294967295!".
C8_Witness ==
    \E r \in Slots :
        /\ WellFormedUser(r)
        /\ pc[r] = "Done"
        /\ req[r].path[4] = <<"%", "4", "1">>
        /\ resp[r] = <<Welcome(<<"A">>,
                               <<"4", "2", "9", "4", "9", "6", "7", "2", "9", "5">>)>>

IsEcho(r) == Is(r, "POST", <<"echo">>)

\* The response that echoes the payload of request q.
Echoed(q) == Response(200, TextPlain, q.body, q.pad)

C10_StreamDelivered ==
    \A r \in Slots :
        (Is(r, "GET", <<"app", "stream">>) /\ pc[r] \in {"Done", "Errored"})
            => /\ pc[r] = "Done"
               /\ Len(resp[r]) = 1
               /\ resp[r][1].status = 200
               /\ resp[r][1].body = app_stream

\* Whether a route is registered for the method and the path of request q.
Registered(q) ==
    \E i \in 1 .. Len(Routes) :
        /\ Routes[i].method = q.method
        /\ PathMatches(Routes[i].template, Requote(q.path))

\* Whether the path of q is that of a resource added with App::route.
UnguardedPath(q) ==
    \E i \in 1 .. Len(Routes) :
        /\ ~Routes[i].guarded
        /\ PathMatches(Routes[i].template, Requote(q.path))

\* The requests for which no route is registered.
Unrouted == {r \in Slots : req[r] # NoReq /\ ~Registered(req[r])}

\* C11 as claimed: a request that matches no registered route reaches no
\* handler and is answered 404 RouteNotFound.
C11_UnmatchedIs404 ==
    \A r \in Unrouted :
        /\ pc[r] \in {"Received", "Errored", "Abandoned"}
        /\ route[r] = NoRoute
        /\ IF pc[r] = "Errored"
           THEN /\ err[r] = "RouteNotFound"
                /\ resp[r] = <<ErrorResponse(404, "RouteNotFound")>>
           ELSE resp[r] = <<>>

\* C11: a request that matches no registered route reaches no handler and
\* is answered once by the router: 405 MethodNotAllowed when its path is
\* that of the resource added with App::route (/hey), and 404 RouteNotFound
\* otherwise.
C11_UnmatchedRefused ==
    \A r \in Unrouted :
        /\ pc[r] \in {"Received", "Errored", "Abandoned"}
        /\ route[r] = NoRoute
        /\ IF pc[r] # "Errored" THEN resp[r] = <<>>
           ELSE IF UnguardedPath(req[r])
           THEN /\ err[r] = "MethodNotAllowed"
                /\ resp[r] = <<ErrorResponse(405, "MethodNotAllowed")>>
           ELSE /\ err[r] = "RouteNotFound"
                /\ resp[r] = <<ErrorResponse(404, "RouteNotFound")>>

\* POST /hey has been answered 405.
C11_Witness ==
    \E r \in Slots :
        /\ Is(r, "POST", <<"hey">>)
        /\ pc[r] = "Errored"
        /\ resp[r] = <<ErrorResponse(405, "MethodNotAllowed")>>

\* GET /index.html has been answered 404.
C11_NotFoundReached ==
    \E r \in Slots :
        /\ Is(r, "GET", <<"index.html">>)
        /\ pc[r] = "Errored"
        /\ resp[r] = <<ErrorResponse(404, "RouteNotFound")>>

\* The values request q gives for the query key username, in order.
Usernames(q) == QueryValues(q.query, "username")

\* C12: a GET /app/query whose query string repeats the key username ends
\* answered 200 "Welcome <v>!", v being the last value given.
C12_LastValueWins ==
    \A r \in Slots :
        (Is(r, "GET", <<"app", "query">>) /\ Len(Usernames(req[r])) > 1
             /\ pc[r] \in {"Done", "Errored"})
            => LET vs == Usernames(req[r])
               IN  /\ pc[r] = "Done"
                   /\ resp[r] = <<Ok(<<"Welcome ">> \o FullDecode(vs[Len(vs)])
                                         \o <<"!">>)>>

IsWait(r) == Is(r, "GET", <<"wait">>)

\* Request r is suspended in sleep(..).await.
Sleeping(r) == IsWait(r) /\ pc[r] = "Invoking" /\ step[r] = "sleep"

\* No app_visits runs on the thread of worker w.
NoVisitsOn(w) == \A y \in Slots : worker[y] = w => ~InVisits(y)

\* The dispatcher can take its next step on request x.
CanStep(x) ==
    CASE pc[x] = "Received" -> ENABLED Match(x)
      [] pc[x] = "Matched" -> ENABLED BeginExtract(x)
      [] pc[x] = "Extracting" -> ENABLED Extract(x)
      [] pc[x] = "Responding" -> ENABLED Finish(x)
      [] OTHER -> TRUE

\* While a /wait sleeps, its worker serves its other requests.
WaitYields ==
    \A r \in Slots, x \in Slots :
        (Sleeping(r) /\ x # r /\ worker[x] = worker[r]
             /\ NoVisitsOn(worker[r]))
            => CanStep(x)

\* Every /wait request received so far is Done with the one response
\* 200 "Waited 5 seconds!".
WaitsAnswered ==
    \A r \in Slots :
        IsWait(r) => /\ pc[r] = "Done"
                     /\ resp[r] = <<Ok(<<"Waited 5 seconds!">>)>>

\* C13: while a GET /wait sleeps, the worker that accepted it can take every
\* step of its other requests up to their responses (unless app_visits runs
\* on its thread), and under fair scheduling every GET /wait comes to be
\* Done with the one response 200 "Waited 5 seconds!".
C13_WaitCooperative == []WaitYields /\ <>[]WaitsAnswered

\* A request accepted after a /wait by the same worker is Done while the
\* /wait still sleeps.
C13_Witness ==
    \E r \in Slots, x \in Slots :
        /\ r < x
        /\ Sleeping(r)
        /\ resp[r] = <<>>
        /\ worker[x] = worker[r]
        /\ pc[x] = "Done"
        /\ Len(resp[x]) = 1

\* Request r is in lock(), waiting for or taking the Mutex.
AtLock(r) == IsVisits(r) /\ pc[r] = "Invoking" /\ step[r] = "lock"

\* While a request holds the lock, its worker's thread stays with it: no
\* other request of that worker moves.
HolderKeepsThread ==
    \A r \in Slots, x \in Slots :
        (HoldsLock(r) /\ x # r /\ worker[x] = worker[r])
            => (pc'[x] = pc[x] /\ step'[x] = step[x])

\* Every /app/visits.html request received so far is Done with its one
\* response, and the Mutex is free.
VisitsAnswered ==
    /\ ~locked
    /\ \A r \in Slots : IsVisits(r) => (pc[r] = "Done" /\ Len(resp[r]) = 1)

\* C20: a request that holds the counter's lock is never suspended, and
\* under fair scheduling the requests in lock() do not wait for good: every
\* GET /app/visits.html comes to be Done with its one response and the
\* Mutex free, whatever other visits and /wait requests are in flight.
C20_NoLockDeadlock == [][HolderKeepsThread]_vars /\ <>[]VisitsAnswered

\* A request waits in lock() while another holds the Mutex.
C20_Witness ==
    \E r \in Slots, x \in Slots :
        /\ HoldsLock(r)
        /\ AtLock(x)
        /\ locked

\* The requests whose handler has been handed its web::Data.
Resolved ==
    {r \in Slots : /\ pc[r] \in {"Invoking", "Responding", "Done"}
                   /\ route[r].handler \in {"app_index", "app_visits"}}

\* The state instance the handler of request r was handed.
DataFor(r) == DataOf(route[r].handler, worker[r])

C14_PerWorkerReached ==
    \E r \in Resolved, x \in Resolved :
        /\ route[r].handler = "app_index"
        /\ route[x].handler = "app_index"
        /\ worker[r] # worker[x]
        /\ DataFor(r) # DataFor(x)

\* The order Received, Matched, Extracting, Invoking, Responding, Done.
ChainEdges ==
    { <<"Received", "Matched">>, <<"Matched", "Extracting">>,
      <<"Extracting", "Invoking">>, <<"Invoking", "Responding">>,
      <<"Responding", "Done">> }

\* What the transport does to a request: it hands it in, or gives it up.
TransportEdges ==
    { <<"Idle", "Received">> }
        \cup ({"Received", "Matched", "Extracting", "Invoking", "Responding"}
                  \X {"Abandoned"})

\* Every change of a request's dispatcher state is one of edges.
MovesAlong(edges) ==
    \A r \in Slots : pc'[r] # pc[r] => <<pc[r], pc'[r]>> \in edges

\* C15 as claimed: the chain, and Errored entered from Matched, Extracting
\* or Invoking only.
C15_ClaimedOrder ==
    [][MovesAlong(ChainEdges \cup TransportEdges
                      \cup ({"Matched", "Extracting", "Invoking"} \X {"Errored"}))]_vars

\* C15: a request changes its dispatcher state only along Received, Matched,
\* Extracting, Invoking, Responding, Done, or to Errored from Received (no
\* route serves it), Extracting or Invoking, or from Extracting straight to
\* Responding when the error handler of /app/submit answers a failed
\* extraction; Done and Errored are never left and no state is entered
\* twice.
C15_Order ==
    [][/\ MovesAlong(ChainEdges \cup TransportEdges
                         \cup ({"Received", "Extracting", "Invoking"} \X {"Errored"})
                         \cup {<<"Extracting", "Responding">>})
       /\ \A r \in Slots :
              /\ (pc[r] = "Extracting" /\ pc'[r] = "Responding")
                     => route[r].handler = "app_submit"
              /\ (pc[r] = "Received" /\ pc'[r] = "Errored")
                     => err'[r] \in {"RouteNotFound", "MethodNotAllowed"}
              /\ pc[r] \in {"Done", "Errored"} => pc'[r] = pc[r]]_vars

\* A request that was never Matched is Errored.
C15_Witness ==
    \E r \in Slots :
        /\ pc[r] = "Errored"
        /\ route[r] = NoRoute
        /\ err[r] = "RouteNotFound"
        /\ Len(resp[r]) = 1

\* Request r is for /app/users/{user_id}/{friend}.
IsUsers(r) ==
    /\ req[r].method = "GET"
    /\ Len(req[r].path) = 4
    /\ req[r].path[1] = <<"app">>
    /\ req[r].path[2] = <<"users">>

\* The decimal digits of 2^32 - 1.
U32MaxDigits == <<"4", "2", "9", "4", "9", "6", "7", "2", "9", "5">>

AllDigits(t) == \A i \in 1 .. Len(t) : IsDigit(t[i])

RECURSIVE StripZeros(_)
StripZeros(t) ==
    IF t # <<>> /\ Head(t) = "0" THEN StripZeros(Tail(t)) ELSE t

\* Digit runs of equal length, compared as numbers.
RECURSIVE DigitsLeq(_, _)
DigitsLeq(a, b) ==
    IF a = <<>> THEN TRUE
    ELSE IF Head(a) = Head(b) THEN DigitsLeq(Tail(a), Tail(b))
    ELSE DigitVal(Head(a)) < DigitVal(Head(b))

\* t is a run of decimal digits whose value is within 0 .. 2^32 - 1.
PlainU32(t) ==
    /\ t # <<>>
    /\ AllDigits(t)
    /\ \/ Len(StripZeros(t)) < Len(U32MaxDigits)
       \/ /\ Len(StripZeros(t)) = Len(U32MaxDigits)
          /\ DigitsLeq(StripZeros(t), U32MaxDigits)

\* t is such a run, or one with a "+" before it.
SignedU32(t) ==
    PlainU32(IF t # <<>> /\ Head(t) = "+" THEN Tail(t) ELSE t)

\* The cases of a failing extraction: a user_id that is no u32 once decoded,
\* no username in the query, a body that is malformed or beyond the limit.
BadUsers(r) == IsUsers(r) /\ ~SignedU32(FullDecode(req[r].path[3]))

BadQuery(r) == Is(r, "GET", <<"app", "query">>) /\ Usernames(req[r]) = <<>>

BadSubmit(r) ==
    /\ Is(r, "POST", <<"app", "submit">>)
    /\ (req[r].body # <<JsonOk>> \/ ContentLength(req[r]) > JsonLimit)

Mismatch(r) ==
    /\ pc[r] = "Errored"
    /\ err[r] = "TypeMismatch"
    /\ resp[r] = <<ErrorResponse(404, "TypeMismatch")>>

\* C17 as claimed: a user_id segment whose text is not a run of decimal
\* digits with a value in 0 .. 2^32 - 1 is refused with TypeMismatch and
\* never answered 200.
C17_NonDecimalRefused ==
    \A r \in Slots :
        (IsUsers(r) /\ ~PlainU32(req[r].path[3]))
            => /\ pc[r] \notin {"Invoking", "Responding", "Done"}
               /\ pc[r] = "Errored" => Mismatch(r)

\* C17: a user_id segment that, once percent-decoded, is not a run of
\* decimal digits, with or without a "+" before it, of a value in
\* 0 .. 2^32 - 1 is refused with TypeMismatch: the handler is never invoked
\* and the one response is 404, so no user_id is echoed.
C17_NonU32Refused ==
    \A r \in Slots :
        BadUsers(r)
            => /\ pc[r] \notin {"Invoking", "Responding", "Done"}
               /\ args[r].user_id = NoArgs.user_id
               /\ pc[r] = "Errored" => Mismatch(r)

\* /app/users/4294967296/.. has been refused.
C17_Witness ==
    \E r \in Slots :
        /\ IsUsers(r)
        /\ req[r].path[3] = SubSeq(U32MaxDigits, 1, Len(U32MaxDigits) - 1)
                                \o <<"6">>
        /\ Mismatch(r)

\* The visits requests whose handler has performed its increment.
Incremented ==
    {r \in Slots : IsVisits(r) /\ (step[r] = "return" \/ resp[r] # <<>>)}

\* A change of the counter is the write of one app_visits handler that
\* holds the lock, and adds one.
OnlyVisitsAddsOne ==
    counter' # counter
        => /\ counter' = counter + 1
           /\ locked
           /\ \E r \in Slots :
                  /\ IsVisits(r)
                  /\ HoldsLock(r)
                  /\ step[r] = "store"
                  /\ step'[r] = "return"
                  /\ \A x \in Slots \ {r} : pc'[x] = pc[x] /\ step'[x] = step[x]

\* C18: from startup the counter changes only in the write of an app_visits
\* handler that holds the lock, and then by +1; every step on any other
\* route, on an unmatched request or of a failed extraction leaves it as it
\* is, and it equals the number of visits handlers that have incremented.
C18_CounterFrame ==
    /\ [](counter = Cardinality(Incremented))
    /\ [][OnlyVisitsAddsOne]_vars

\* An app_visits handler holds the lock after its increment.
C18_Witness ==
    \E r \in Slots :
        /\ IsVisits(r)
        /\ HoldsLock(r)
        /\ step[r] = "return"
        /\ counter = 1

\* C19: the counter is within 0 .. 2^31 - 1 in every reachable state, and no
\* app_visits response reports a value below zero, also after the increment
\* attempted at 2^31 - 1.
C19_CounterInRange ==
    /\ counter >= 0
    /\ counter <= I32Max
    /\ \A r \in Returned : resp[r][1] # VisitsSoFar(I32Min)
=============================================================================
